---- MODULE Spec2Model ----
(***************************************************************************)
(* A model of the contact-book REST service: the pydantic validators of    *)
(* src/schemas.py, the route handlers of src/routes/contacts.py and the    *)
(* repository functions of src/repository/contacts.py.                     *)
(*                                                                         *)
(* Strings that the code inspects character by character (contact_number)  *)
(* are sequences of one-character strings.  Dates are records              *)
(* [year, month, day] ordered as datetime.date orders them.                *)
(***************************************************************************)
EXTENDS Integers, Sequences, FiniteSets, TLC

VARIABLES
    contacts,   \* the rows of the contacts table, in the order queries return them
    next_id,    \* the id the storage assigns to the next inserted row
    clock,      \* days elapsed since StartDate: date.today() is Today
    last,       \* the last request served and its response
    created,    \* history: id -> body submitted by the create that returned it
    pc,         \* per concurrent request: "idle", "checked" or "done"
    req         \* per concurrent request: its body and its response

vars == <<contacts, next_id, clock, last, created, pc, req>>

---------------------------------------------------------------------------
(* Bounds of the model *)

\* ids the storage hands out before creates stop
MaxId == 3
\* days the clock may advance past StartDate
MaxTicks == 3
\* concurrent create requests
NumProcs == 2
\* rows of the table in the birthday-window specification
MaxRows == 3
\* largest skip and limit of a birthdays request
MaxPage == 2

---------------------------------------------------------------------------
(* datetime.date *)

Date(y, m, d) == [year |-> y, month |-> m, day |-> d]

NoDate == Date(0, 0, 0)

IsLeap(y) == (y % 4 = 0 /\ y % 100 # 0) \/ y % 400 = 0

DaysInMonth(y, m) ==
    IF m = 2 THEN (IF IsLeap(y) THEN 29 ELSE 28)
    ELSE IF m \in {4, 6, 9, 11} THEN 30 ELSE 31

NextDay(d) ==
    IF d.day < DaysInMonth(d.year, d.month) THEN Date(d.year, d.month, d.day + 1)
    ELSE IF d.month < 12 THEN Date(d.year, d.month + 1, 1)
    ELSE Date(d.year + 1, 1, 1)

RECURSIVE AddDays(_, _)
\* date + timedelta(days=n)
AddDays(d, n) == IF n = 0 THEN d ELSE AddDays(NextDay(d), n - 1)

\* date.__gt__: a > b
DateGT(a, b) ==
    \/ a.year > b.year
    \/ a.year = b.year /\ a.month > b.month
    \/ a.year = b.year /\ a.month = b.month /\ a.day > b.day

\* the day the service is started on
StartDate == Date(2023, 12, 23)

\* date.today()
Today == AddDays(StartDate, clock)

---------------------------------------------------------------------------
(* re.match(r'^(\+\d{1,2}\s)?\(?\d{3}\)?[\s.-]\d{3}[\s.-]\d{4}$', value)   *)
(* The matcher keeps, after each element of the pattern, the set of        *)
(* positions of value where the rest of the pattern may continue.          *)

\* \d over the ASCII alphabet of the inputs
Digits == {"0", "1", "2", "3", "4", "5", "6", "7", "8", "9"}

\* \s
Spaces == {" ", "\t", "\n", "\r", "\f"}

\* [\s.-]
Separators == Spaces \cup {".", "-"}

\* one pattern element matching one character of the class chars
MatchOne(s, P, chars) == {p + 1 : p \in {q \in P : q <= Len(s) /\ s[q] \in chars}}

\* \d{n}
MatchDigits(s, P, n) ==
    {p + n : p \in {q \in P : q + n - 1 <= Len(s)
                              /\ \A k \in q .. (q + n - 1) : s[k] \in Digits}}

\* x? for the literal character c
MatchOptChar(s, P, c) == P \cup MatchOne(s, P, {c})

\* (\+\d{1,2}\s)? anchored at the start of the string by ^ and re.match
MatchCountryCode(s) ==
    LET plus   == MatchOne(s, {1}, {"+"})
        digits == MatchDigits(s, plus, 1) \cup MatchDigits(s, plus, 2)
    IN  {1} \cup MatchOne(s, digits, Spaces)

\* $ : the end of the string, or just before a newline that ends it
AtEnd(s, p) == p = Len(s) + 1 \/ (p = Len(s) /\ s[p] = "\n")

ReMatch(s) ==
    LET p0 == MatchCountryCode(s)
        p1 == MatchOptChar(s, p0, "(")
        p2 == MatchDigits(s, p1, 3)
        p3 == MatchOptChar(s, p2, ")")
        p4 == MatchOne(s, p3, Separators)
        p5 == MatchDigits(s, p4, 3)
        p6 == MatchOne(s, p5, Separators)
        p7 == MatchDigits(s, p6, 4)
    IN  \E p \in p7 : AtEnd(s, p)

---------------------------------------------------------------------------
(* ContactModel: the field validators.  A validator that raises ValueError *)
(* is FALSE here; pydantic reports every failing field (status 422).       *)

validate_contact_number(value) == ReMatch(value)

\* faulty variant: the comparison written >= rejects a birth date of today
validate_birth_date_ge(value, today) == DateGT(today, value)

validate_birth_date(value, today) == ~DateGT(value, today)

\* the fields pydantic reports for a request body
ContactModel(body, today) ==
    (IF validate_contact_number(body.contact_number)
       THEN {} ELSE {"contact_number"})
    \cup (IF validate_birth_date(body.birth_date, today) THEN {} ELSE {"birth_date"})

---------------------------------------------------------------------------
(* Request bodies.  Every body drawn here satisfies the declarative field  *)
(* constraints (max_length, EmailStr); contact_number and birth_date are   *)
(* checked by the validators above.                                        *)

\* "123-456-7890"
Number1 == <<"1", "2", "3", "-", "4", "5", "6", "-", "7", "8", "9", "0">>
\* "(123) 456-7890"
Number2 == <<"(", "1", "2", "3", ")", " ", "4", "5", "6", "-", "7", "8", "9", "0">>
\* "123 456 7890"
Number3 == <<"1", "2", "3", " ", "4", "5", "6", " ", "7", "8", "9", "0">>
\* "1234567890"
NumberBad == <<"1", "2", "3", "4", "5", "6", "7", "8", "9", "0">>

Emails == {"ann@example.com", "bob@example.com"}

Numbers == {Number1, Number2, NumberBad}

BirthDates == {Date(2000, 12, 29), Date(2001, 1, 2), Date(2023, 12, 25)}

Bodies ==
    [first_name : {"Ann"}, last_name : {"Lee"}, email : Emails,
     contact_number : Numbers, birth_date : BirthDates,
     additional_information : {"friend"}]

NoBody ==
    [first_name |-> "", last_name |-> "", email |-> "", contact_number |-> <<>>,
     birth_date |-> NoDate, additional_information |-> ""]

\* contact_id of a request path; Path(ge=1) rejects 0
ContactIds == 0 .. MaxId

---------------------------------------------------------------------------
(* The contacts table and the queries the code runs on it.  A query result *)
(* "Contact | None" is a sequence of at most one row.                      *)

\* Contact(first_name=body.first_name, ...): the row built from a body
Contact(id, body) ==
    [id |-> id, first_name |-> body.first_name, last_name |-> body.last_name,
     email |-> body.email, contact_number |-> body.contact_number,
     birth_date |-> body.birth_date,
     additional_information |-> body.additional_information]

\* INSERT of a row: the table accepts any row and keeps the id it was given
TableInsert(db, row) == Append(db, row)

\* the id the table assigns to an inserted row: ids are never handed out twice
AssignId(nid) == nid

Min(a, b) == IF a < b THEN a ELSE b

\* .first() over the rows at the indexes S: the first of them, or None
First(db, S) ==
    IF S = {} THEN <<>> ELSE <<db[CHOOSE i \in S : \A j \in S : i <= j]>>

\* db.query(Contact).filter(Contact.id == contact_id).first()
FirstById(db, contact_id) ==
    First(db, {i \in 1 .. Len(db) : db[i].id = contact_id})

\* db.query(Contact).filter_by(email=email).first()
FirstByEmail(db, email) ==
    First(db, {i \in 1 .. Len(db) : db[i].email = email})

\* db.query(Contact).filter_by(contact_number=number).first()
FirstByNumber(db, number) ==
    First(db, {i \in 1 .. Len(db) : db[i].contact_number = number})

\* db.query(Contact).offset(skip).limit(limit).all()
OffsetLimit(db, skip, limit) == SubSeq(db, skip + 1, Min(Len(db), skip + limit))

---------------------------------------------------------------------------
(* src/repository/contacts.py.  Each function returns the table after its  *)
(* commit (db) and the value it returns to the caller (result).            *)

repository_get_contact(contact_id, db) == FirstById(db, contact_id)

\* faulty variant: first_name and last_name swapped when the row is built
repository_create_contact_swapped(body, db, nid) ==
    LET contact == [Contact(AssignId(nid), body) EXCEPT
                      !.first_name = body.last_name, !.last_name = body.first_name]
    IN  [db |-> TableInsert(db, contact), result |-> <<contact>>]

\* faulty variant: the insert is skipped when a row already holds the email
repository_create_contact_dedup(body, db, nid) ==
    LET contact == Contact(AssignId(nid), body)
    IN  [db |-> IF \E i \in 1 .. Len(db) : db[i].email = body.email
                  THEN db ELSE TableInsert(db, contact),
         result |-> <<contact>>]

repository_create_contact(body, db, nid) ==
    LET contact == Contact(AssignId(nid), body)
    IN  [db |-> TableInsert(db, contact), result |-> <<contact>>]

repository_update_contact(contact_id, body, db) ==
    LET contact == FirstById(db, contact_id)
    IN  IF contact # <<>>
          THEN LET updated == Contact(contact[1].id, body)
               IN  [db |-> [i \in 1 .. Len(db) |->
                               IF db[i].id = contact_id THEN updated ELSE db[i]],
                    result |-> <<updated>>]
          ELSE [db |-> db, result |-> <<>>]

repository_remove_contact(contact_id, db) ==
    LET contact == FirstById(db, contact_id)
    IN  IF contact # <<>>
          THEN [db |-> SelectSeq(db, LAMBDA c : c.id # contact_id),
                result |-> contact]
          ELSE [db |-> db, result |-> <<>>]

\* (a.month, a.day) < (b.month, b.day): Python's tuple comparison
TupleLT(a, b) == a[1] < b[1] \/ (a[1] = b[1] /\ a[2] < b[2])

\* (a.month, a.day) <= (b.month, b.day)
TupleLE(a, b) == a[1] < b[1] \/ (a[1] = b[1] /\ a[2] <= b[2])

\* faulty variant: a window that wraps over the end of the year
InBirthdayWindow_wrap(birth_date, current_date, to_date) ==
    LET contact_birthday_month_day == <<birth_date.month, birth_date.day>>
        current_date_month_day == <<current_date.month, current_date.day>>
        to_date_month_day == <<to_date.month, to_date.day>>
    IN  IF TupleLT(to_date_month_day, current_date_month_day)
          THEN \/ TupleLT(current_date_month_day, contact_birthday_month_day)
               \/ TupleLE(contact_birthday_month_day, to_date_month_day)
          ELSE /\ TupleLT(current_date_month_day, contact_birthday_month_day)
               /\ TupleLE(contact_birthday_month_day, to_date_month_day)

\* current_date_month_day < contact_birthday_month_day <= to_date_month_day
InBirthdayWindow(birth_date, current_date, to_date) ==
    LET contact_birthday_month_day == <<birth_date.month, birth_date.day>>
        current_date_month_day == <<current_date.month, current_date.day>>
        to_date_month_day == <<to_date.month, to_date.day>>
    IN  /\ TupleLT(current_date_month_day, contact_birthday_month_day)
        /\ TupleLE(contact_birthday_month_day, to_date_month_day)

RECURSIVE BirthdayLoop(_, _, _, _)
\* the for loop over the first n contacts of the page, appending to upcoming
BirthdayLoop(page, n, current_date, to_date) ==
    IF n = 0 THEN <<>>
    ELSE LET upcoming == BirthdayLoop(page, n - 1, current_date, to_date)
         IN  IF InBirthdayWindow(page[n].birth_date, current_date, to_date)
               THEN Append(upcoming, page[n])
               ELSE upcoming

\* faulty variant: the birthday filter runs on the whole table, pagination after it
upcoming_birthdays_filter_first(current_date, to_date, skip, limit, db) ==
    OffsetLimit(BirthdayLoop(db, Len(db), current_date, to_date), skip, limit)

upcoming_birthdays(current_date, to_date, skip, limit, db) ==
    LET page == OffsetLimit(db, skip, limit)
    IN  BirthdayLoop(page, Len(page), current_date, to_date)

---------------------------------------------------------------------------
(* src/routes/contacts.py.  A handler's outcome is a response              *)
(* [status, detail, errors, result] and the table after it (db).           *)

Response(status, detail, errors, result, db) ==
    [status |-> status, detail |-> detail, errors |-> errors,
     result |-> result, db |-> db]

\* faulty variant: the contact_number query is forgotten
UniquenessCheck_email_only(body, db) ==
    IF FirstByEmail(db, body.email) # <<>> THEN "email" ELSE ""

\* faulty variant: a conflict only when one row matches both email and contact_number
UniquenessCheck_both(body, db) ==
    IF \E i \in 1 .. Len(db) : /\ db[i].email = body.email
                               /\ db[i].contact_number = body.contact_number
      THEN "email" ELSE ""

\* the two uniqueness queries and the 409 they raise; "" when neither matches
UniquenessCheck(body, db) ==
    LET contact_email == FirstByEmail(db, body.email)
        contact_number == FirstByNumber(db, body.contact_number)
    IN  IF contact_email # <<>> THEN "email"
        ELSE IF contact_number # <<>> THEN "number"
        ELSE ""

\* request validation of the framework: Path(ge=1) and the ContactModel body
PathErrors(contact_id) == IF contact_id >= 1 THEN {} ELSE {"contact_id"}

routes_get_contact(contact_id, db) ==
    IF PathErrors(contact_id) # {}
      THEN Response(422, "validation", PathErrors(contact_id), <<>>, db)
    ELSE LET contact == repository_get_contact(contact_id, db)
         IN  IF contact = <<>>
               THEN Response(404, "Contact not found", {}, <<>>, db)
               ELSE Response(200, "", {}, contact, db)

routes_create_contact(body, db, nid, today) ==
    IF ContactModel(body, today) # {}
      THEN Response(422, "validation", ContactModel(body, today), <<>>, db)
    ELSE LET conflict == UniquenessCheck(body, db)
         IN  IF conflict # ""
               THEN Response(409, conflict, {}, <<>>, db)
               ELSE LET r == repository_create_contact(body, db, nid)
                    IN  Response(200, "", {}, r.result, r.db)

\* faulty variant: the uniqueness queries run before the lookup of contact_id
routes_update_contact_check_first(body, contact_id, db, today) ==
    LET errors == ContactModel(body, today) \cup PathErrors(contact_id)
        conflict == UniquenessCheck(body, db)
    IN  IF errors # {}
          THEN Response(422, "validation", errors, <<>>, db)
        ELSE IF conflict # ""
          THEN Response(409, conflict, {}, <<>>, db)
        ELSE IF FirstById(db, contact_id) = <<>>
          THEN Response(404, "Contact not found", {}, <<>>, db)
        ELSE LET r == repository_update_contact(contact_id, body, db)
             IN  Response(200, "", {}, r.result, r.db)

routes_update_contact(body, contact_id, db, today) ==
    LET errors == ContactModel(body, today) \cup PathErrors(contact_id)
    IN  IF errors # {}
          THEN Response(422, "validation", errors, <<>>, db)
        ELSE IF FirstById(db, contact_id) = <<>>
          THEN Response(404, "Contact not found", {}, <<>>, db)
        ELSE LET conflict == UniquenessCheck(body, db)
             IN  IF conflict # ""
                   THEN Response(409, conflict, {}, <<>>, db)
                   ELSE LET r == repository_update_contact(contact_id, body, db)
                        IN  Response(200, "", {}, r.result, r.db)

routes_remove_contact(contact_id, db) ==
    IF PathErrors(contact_id) # {}
      THEN Response(422, "validation", PathErrors(contact_id), <<>>, db)
    ELSE LET r == repository_remove_contact(contact_id, db)
         IN  IF r.result = <<>>
               THEN Response(404, "Contact not found", {}, <<>>, db)
               ELSE Response(200, "", {}, r.result, r.db)

get_upcoming_birthdays(skip, limit, db, today) ==
    LET current_date == today
        to_date == AddDays(current_date, 7)
    IN  Response(200, "", {},
                 upcoming_birthdays(current_date, to_date, skip, limit, db), db)

---------------------------------------------------------------------------
(* The service serving one request at a time: each action is one request,  *)
(* from its validation to its response; CloseSession ends the request.     *)

Procs == 1 .. NumProcs

Request(op, contact_id, body, skip, limit, current_date, to_date, r) ==
    [op |-> op, contact_id |-> contact_id, body |-> body, skip |-> skip,
     limit |-> limit, current_date |-> current_date, to_date |-> to_date,
     status |-> r.status, detail |-> r.detail, errors |-> r.errors,
     result |-> r.result]

NoRequest ==
    Request("", 0, NoBody, 0, 0, NoDate, NoDate,
            Response(0, "", {}, <<>>, <<>>))

NoReq == [body |-> NoBody, status |-> 0, detail |-> "", id |-> 0]

Init ==
    /\ contacts = <<>>
    /\ next_id = 1
    /\ clock = 0
    /\ last = NoRequest
    /\ created = [i \in 1 .. MaxId |-> NoBody]
    /\ pc = [p \in Procs |-> "idle"]
    /\ req = [p \in Procs |-> NoReq]

\* POST /contacts/
CreateContact ==
    /\ last = NoRequest
    /\ \E body \in Bodies :
        LET r == routes_create_contact(body, contacts, next_id, Today)
        IN  /\ r.status = 200 => next_id <= MaxId
            /\ contacts' = r.db
            /\ next_id' = IF r.status = 200 THEN next_id + 1 ELSE next_id
            /\ last' = Request("create", 0, body, 0, 0, Today, NoDate, r)
            /\ created' = IF r.status = 200
                            THEN [created EXCEPT ![r.result[1].id] = body]
                            ELSE created
            /\ UNCHANGED <<clock, pc, req>>

\* PUT /contacts/{contact_id}
UpdateContact ==
    /\ last = NoRequest
    /\ \E body \in Bodies, contact_id \in ContactIds :
        LET r == routes_update_contact(body, contact_id, contacts, Today)
        IN  /\ contacts' = r.db
            /\ last' = Request("update", contact_id, body, 0, 0, Today, NoDate, r)
            /\ created' = IF r.status = 200
                            THEN [created EXCEPT ![contact_id] = NoBody]
                            ELSE created
            /\ UNCHANGED <<next_id, clock, pc, req>>

\* DELETE /contacts/{contact_id}
RemoveContact ==
    /\ last = NoRequest
    /\ \E contact_id \in ContactIds :
        LET r == routes_remove_contact(contact_id, contacts)
        IN  /\ contacts' = r.db
            /\ last' = Request("delete", contact_id, NoBody, 0, 0, NoDate, NoDate, r)
            /\ created' = IF r.status = 200
                            THEN [created EXCEPT ![contact_id] = NoBody]
                            ELSE created
            /\ UNCHANGED <<next_id, clock, pc, req>>

\* GET /contacts/{contact_id}
GetContact ==
    /\ last = NoRequest
    /\ \E contact_id \in ContactIds :
        LET r == routes_get_contact(contact_id, contacts)
        IN  /\ last' = Request("get", contact_id, NoBody, 0, 0, NoDate, NoDate, r)
            /\ UNCHANGED <<contacts, next_id, clock, created, pc, req>>

\* GET /contacts/birthdays/
GetUpcomingBirthdays ==
    /\ last = NoRequest
    /\ \E skip \in 0 .. MaxPage, limit \in 0 .. MaxPage :
        LET r == get_upcoming_birthdays(skip, limit, contacts, Today)
        IN  /\ last' = Request("birthdays", 0, NoBody, skip, limit,
                               Today, AddDays(Today, 7), r)
            /\ UNCHANGED <<contacts, next_id, clock, created, pc, req>>

\* the response is sent and the request's storage session is released
CloseSession ==
    /\ last # NoRequest
    /\ last' = NoRequest
    /\ UNCHANGED <<contacts, next_id, clock, created, pc, req>>

\* midnight: date.today() moves to the next day
Tick ==
    /\ last = NoRequest
    /\ clock < MaxTicks
    /\ clock' = clock + 1
    /\ UNCHANGED <<contacts, next_id, last, created, pc, req>>

Next ==
    \/ CreateContact
    \/ UpdateContact
    \/ RemoveContact
    \/ GetContact
    \/ GetUpcomingBirthdays
    \/ CloseSession
    \/ Tick

Spec == Init /\ [][Next]_vars

---------------------------------------------------------------------------
(* Concurrent create requests (several workers on one table): a request    *)
(* runs its validation and its two uniqueness queries in one step and the  *)
(* repository's insert and commit in a later one.                          *)

\* validation and the uniqueness queries of POST /contacts/
CreateCheck ==
    \E p \in Procs, body \in Bodies :
        LET errors == ContactModel(body, Today)
            conflict == UniquenessCheck(body, contacts)
        IN  /\ pc[p] = "idle"
            /\ pc' = [pc EXCEPT ![p] =
                        IF errors = {} /\ conflict = "" THEN "checked" ELSE "done"]
            /\ req' = [req EXCEPT ![p] =
                        [body |-> body,
                         status |-> IF errors # {} THEN 422
                                    ELSE IF conflict # "" THEN 409 ELSE 0,
                         detail |-> IF errors # {} THEN "validation" ELSE conflict,
                         id |-> 0]]
            /\ UNCHANGED <<contacts, next_id, clock, last, created>>

\* repository create_contact of a request whose queries found nothing
CreateCommit ==
    \E p \in Procs :
        LET r == repository_create_contact(req[p].body, contacts, next_id)
        IN  /\ pc[p] = "checked"
            /\ contacts' = r.db
            /\ next_id' = next_id + 1
            /\ pc' = [pc EXCEPT ![p] = "done"]
            /\ req' = [req EXCEPT ![p].status = 200, ![p].id = r.result[1].id]
            /\ UNCHANGED <<clock, last, created>>

NextConcurrent == CreateCheck \/ CreateCommit

SpecConcurrent == Init /\ [][NextConcurrent]_vars

---------------------------------------------------------------------------
(* upcoming_birthdays as a function of its arguments and of the table.     *)

\* "+12 (345) 678-9012"
Number4 ==
    <<"+", "1", "2", " ", "(", "3", "4", "5", ")", " ", "6", "7", "8", "-",
      "9", "0", "1", "2">>

RowEmails ==
    <<"ann@example.com", "bob@example.com", "cat@example.com", "dan@example.com">>

RowNumbers == <<Number1, Number2, Number3, Number4>>

RowBirthDates ==
    {Date(1990, 6, 10), Date(1985, 6, 20), Date(2000, 12, 31), Date(1970, 1, 3)}

WindowDates ==
    {Date(2024, 6, 15), Date(2024, 6, 22), Date(2023, 12, 29), Date(2024, 1, 5)}

\* tables of n rows with ids 1..n, distinct emails and numbers
Tables(n) ==
    {[i \in 1 .. n |->
         [id |-> i, first_name |-> "Ann", last_name |-> "Lee",
          email |-> RowEmails[i], contact_number |-> RowNumbers[i],
          birth_date |-> b[i], additional_information |-> "friend"]] :
      b \in [1 .. n -> RowBirthDates]}

InitBirthdays ==
    /\ contacts \in UNION {Tables(n) : n \in 0 .. MaxRows}
    /\ next_id = Len(contacts) + 1
    /\ clock = 0
    /\ \E current_date \in WindowDates, to_date \in WindowDates,
          skip \in 0 .. MaxRows, limit \in 0 .. MaxRows :
          last = Request("input", 0, NoBody, skip, limit, current_date, to_date,
                         Response(0, "", {}, <<>>, <<>>))
    /\ created = [i \in 1 .. MaxId |-> NoBody]
    /\ pc = [p \in Procs |-> "idle"]
    /\ req = [p \in Procs |-> NoReq]

UpcomingBirthdays ==
    /\ last.op = "input"
    /\ last' = [last EXCEPT
                  !.op = "upcoming_birthdays",
                  !.status = 200,
                  !.result = upcoming_birthdays(last.current_date, last.to_date,
                                                last.skip, last.limit, contacts)]
    /\ UNCHANGED <<contacts, next_id, clock, created, pc, req>>

SpecBirthdays == InitBirthdays /\ [][UpcomingBirthdays]_vars

---------------------------------------------------------------------------
(* validate_contact_number as a function of the submitted string.          *)

PrefixInputs == {<<>>, <<"+", "1", " ">>, <<"+", "1", "2", " ">>,
                 <<"+", "1", "2", "3", " ">>, <<"+", "1", "2">>}

SeparatorInputs == {<<>>, <<" ">>, <<".">>, <<"-">>, <<"/">>, <<"\t">>}

PhoneInputs ==
    {prefix \o open \o g1 \o close \o sep1 \o g2 \o sep2 \o g3 \o tail :
        prefix \in PrefixInputs,
        open \in {<<>>, <<"(">>},
        g1 \in {<<"1", "2", "3">>, <<"1", "2", "a">>},
        close \in {<<>>, <<")">>},
        sep1 \in SeparatorInputs \cup {<<")", " ">>},
        g2 \in {<<"4", "5", "6">>, <<"4", "5">>},
        sep2 \in SeparatorInputs,
        g3 \in {<<"7", "8", "9", "0">>, <<"6", "7", "8", "9">>},
        tail \in {<<>>, <<"\n">>, <<"1">>}}

InitValidate ==
    /\ contacts = <<>>
    /\ next_id = 1
    /\ clock = 0
    /\ \E value \in PhoneInputs :
          last = Request("input", 0, [NoBody EXCEPT !.contact_number = value],
                         0, 0, NoDate, NoDate, Response(0, "", {}, <<>>, <<>>))
    /\ created = [i \in 1 .. MaxId |-> NoBody]
    /\ pc = [p \in Procs |-> "idle"]
    /\ req = [p \in Procs |-> NoReq]

\* the field validator runs on the submitted contact_number
ValidateContactNumber ==
    /\ last.op = "input"
    /\ last' = [last EXCEPT
                  !.op = "validate",
                  !.status = IF validate_contact_number(last.body.contact_number)
                               THEN 200 ELSE 422,
                  !.errors = IF validate_contact_number(last.body.contact_number)
                               THEN {} ELSE {"contact_number"}]
    /\ UNCHANGED <<contacts, next_id, clock, created, pc, req>>

SpecValidate == InitValidate /\ [][ValidateContactNumber]_vars

---------------------------------------------------------------------------
(* Properties                                                              *)

Rows == 1 .. Len(contacts)

\* a step that serves a request with operation op
Serves(op) == last' # last /\ last'.op = op

\* the request of last' passes the framework's validation
PassesValidation ==
    /\ validate_contact_number(last'.body.contact_number)
    /\ ~DateGT(last'.body.birth_date, last'.current_date)

\* C1: when requests are served one at a time, no two stored contacts have
\* the same email and no two stored contacts have the same contact_number.
C1_UniqueEmailAndNumber ==
    \A i \in Rows, j \in Rows :
        i # j => /\ contacts[i].email # contacts[j].email
                 /\ contacts[i].contact_number # contacts[j].contact_number

\* two contacts stored by a run that created three and removed one
C1_Witness ==
    /\ Len(contacts) = 2
    /\ next_id > 3
    /\ last.op = "create" /\ last.status = 200

\* C2 as stated: every create whose email is already stored is answered 409
\* and leaves the table as it was, whatever else the body holds.
C2_DuplicateEmailAlways409 ==
    [][(Serves("create") /\ \E i \in Rows : contacts[i].email = last'.body.email)
          => (last'.status = 409 /\ contacts' = contacts)]_vars

\* C2 amended: a create whose email is already stored leaves the table as it
\* was; it is answered 409 whatever its contact_number is when the body
\* passes validation, and 422 when it does not.
C2_DuplicateEmailRejected ==
    [][(Serves("create") /\ \E i \in Rows : contacts[i].email = last'.body.email)
          => /\ contacts' = contacts
             /\ last'.status = IF PassesValidation THEN 409 ELSE 422]_vars

\* a create rejected for its email alone: no stored contact has its number
C2_Witness ==
    /\ last.op = "create" /\ last.status = 409
    /\ \E i \in Rows : contacts[i].email = last.body.email
    /\ \A i \in Rows : contacts[i].contact_number # last.body.contact_number

\* C3: an update of an existing contact with a valid body whose email and
\* contact_number match no stored contact other than the one being updated
\* succeeds (is not answered 409).
C3_SelfMatchIsNoConflict ==
    [][(/\ Serves("update")
        /\ PassesValidation
        /\ \E i \in Rows : contacts[i].id = last'.contact_id
        /\ \A i \in Rows :
              (\/ contacts[i].email = last'.body.email
               \/ contacts[i].contact_number = last'.body.contact_number)
                 => contacts[i].id = last'.contact_id)
          => last'.status = 200]_vars

\* C4 as stated: every update of an id no stored contact has is answered 404
\* and leaves the table as it was, for every request body.
C4_MissingIdAlways404 ==
    [][(Serves("update") /\ \A i \in Rows : contacts[i].id # last'.contact_id)
          => (last'.status = 404 /\ contacts' = contacts)]_vars

\* C4 amended: an update of an id no stored contact has leaves the table as
\* it was; it is answered 404, never 409, when the request passes validation
\* (contact_id >= 1 and a valid body), and 422 when it does not.
C4_MissingIdNotFound ==
    [][(Serves("update") /\ \A i \in Rows : contacts[i].id # last'.contact_id)
          => /\ contacts' = contacts
             /\ last'.status = IF PassesValidation /\ last'.contact_id >= 1
                                 THEN 404 ELSE 422]_vars

\* an update answered 404 whose body holds the email of a stored contact
C4_Witness ==
    /\ last.op = "update" /\ last.status = 404
    /\ \E i \in Rows : contacts[i].email = last.body.email

\* (month, day) of a is before that of b
MonthDayBefore(a, b) == a.month * 100 + a.day < b.month * 100 + b.day

\* the rows of the page whose birthday lies in (current, to]
WindowRows ==
    {i \in Rows :
        /\ last.skip < i /\ i <= last.skip + last.limit
        /\ MonthDayBefore(last.current_date, contacts[i].birth_date)
        /\ ~MonthDayBefore(last.to_date, contacts[i].birth_date)}

\* C5: upcoming_birthdays returns exactly the contacts of the page
\* (skip, skip + limit] whose (month, day) is after that of current_date and
\* not after that of to_date, in the order of the page.
C5_WindowOfThePage ==
    last.op = "upcoming_birthdays" =>
        /\ Len(last.result) = Cardinality(WindowRows)
        /\ \A i \in WindowRows :
              last.result[Cardinality({j \in WindowRows : j <= i})] = contacts[i]

\* two contacts returned while a third, outside the page, has its birthday
\* in the window
C5_Witness ==
    /\ last.op = "upcoming_birthdays"
    /\ Len(last.result) = 2
    /\ \E i \in Rows :
          /\ i > last.skip + last.limit
          /\ MonthDayBefore(last.current_date, contacts[i].birth_date)
          /\ ~MonthDayBefore(last.to_date, contacts[i].birth_date)

\* the fields of a body a row holds
BodyOf(row) ==
    [first_name |-> row.first_name, last_name |-> row.last_name,
     email |-> row.email, contact_number |-> row.contact_number,
     birth_date |-> row.birth_date,
     additional_information |-> row.additional_information]

\* C6: a successful create returns the submitted fields under an id no
\* contact stored before it has, and a get of that id, with no update or
\* delete of it in between, returns the submitted fields.
C6_RoundTrip ==
    [][/\ (Serves("create") /\ last'.status = 200)
            => /\ BodyOf(last'.result[1]) = last'.body
               /\ \A i \in Rows : contacts[i].id # last'.result[1].id
       /\ (Serves("get") /\ last'.contact_id >= 1
                         /\ created[last'.contact_id] # NoBody)
            => /\ last'.status = 200
               /\ last'.result[1].id = last'.contact_id
               /\ BodyOf(last'.result[1]) = created[last'.contact_id]]_vars

\* a get of a created contact while another contact is stored before it
C6_Witness ==
    /\ last.op = "get" /\ last.status = 200
    /\ created[last.contact_id] # NoBody
    /\ Len(contacts) = 2 /\ contacts[2].id = last.contact_id

\* the five layouts, D standing for a decimal digit
ListedLayouts ==
    {<<"D", "D", "D", "-", "D", "D", "D", "-", "D", "D", "D", "D">>,
     <<"(", "D", "D", "D", ")", " ", "D", "D", "D", "-", "D", "D", "D", "D">>,
     <<"D", "D", "D", " ", "D", "D", "D", " ", "D", "D", "D", "D">>,
     <<"D", "D", "D", ".", "D", "D", "D", ".", "D", "D", "D", "D">>,
     <<"+", "D", " ", "(", "D", "D", "D", ")", " ", "D", "D", "D", "-",
       "D", "D", "D", "D">>,
     <<"+", "D", "D", " ", "(", "D", "D", "D", ")", " ", "D", "D", "D", "-",
       "D", "D", "D", "D">>}

Layout(s) == [i \in 1 .. Len(s) |-> IF s[i] \in Digits THEN "D" ELSE s[i]]

\* C7: validation accepts a contact_number if and only if it has one of the
\* five listed layouts.
C7_OnlyListedLayouts ==
    last.op = "validate" =>
        (last.status = 200 <=> Layout(last.body.contact_number) \in ListedLayouts)

\* C8: a create or update whose birth_date is after the current date is
\* rejected, one whose birth_date is the current date passes the birth-date
\* check, and every stored birth_date is on or before the current date.
C8_BirthDateNotInFuture ==
    /\ last.op \in {"create", "update"} =>
          /\ DateGT(last.body.birth_date, last.current_date)
                => (last.status = 422 /\ "birth_date" \in last.errors)
          /\ last.body.birth_date = last.current_date
                => "birth_date" \notin last.errors
    /\ \A i \in Rows : ~DateGT(contacts[i].birth_date, Today)

\* a contact created on the day of its birth_date
C8_Witness ==
    /\ last.op = "create" /\ last.status = 200
    /\ last.body.birth_date = last.current_date
    /\ \E i \in Rows : contacts[i].birth_date = Today

\* C9: two concurrent creates with one email whose uniqueness queries both
\* ran before either commit are both stored: two rows share the email.
C9_BothCreatesStored ==
    \A p \in Procs, q \in Procs :
        (/\ p # q
         /\ pc[p] = "done" /\ req[p].status = 200
         /\ pc[q] = "done" /\ req[q].status = 200
         /\ req[p].body.email = req[q].body.email)
          => \E i \in Rows, j \in Rows :
                /\ i # j
                /\ contacts[i].id = req[p].id /\ contacts[j].id = req[q].id
                /\ contacts[i].email = req[p].body.email
                /\ contacts[j].email = req[p].body.email

\* two stored contacts share one email
C9_Witness ==
    \E i \in Rows, j \in Rows : i # j /\ contacts[i].email = contacts[j].email

====
